---- MODULE Spec2Model ----
(***************************************************************************)
(* DBSCAN density clustering of muster (cluster::density, density.h).      *)
(*                                                                         *)
(* Objects are opaque: an object is identified by its position in the      *)
(* input vector, and the algorithm sees it only through the metric.  All   *)
(* indices are 0-based as in the source; At/Put read and write a vector    *)
(* at a 0-based index.                                                     *)
(***************************************************************************)
EXTENDS Integers, Sequences, FiniteSets, TLC

\* ------------------------------------------------------------------ bounds
MaxN == 5
MaxMinPoints == 4
MaxAnyN == 3
MaxQueryN == 2

\* Distances and radii handed to the algorithm.  In a clustering run only the
\* outcome of d < epsilon matters: 0 is below the radius, 1 is exactly on it.
Distances == {0, 1}
Epsilons == {1}
\* The range query alone is run over a richer set: below, at and above.
QueryDistances == {0, 1, 2}
QueryEpsilons == {0, 1, 2}

\* --------------------------------------------------------------- constants
UNCLASSIFIED == 0
NOISE == 1
FIRST_CLUSTER == 2

VARIABLES
    objects,              \* the input vector (objects[k+1] is object k)
    dmetric,              \* the dissimilarity callable, as the matrix of its values
    args,                 \* dbscan's arguments epsilon and min_points
    epsilon_,             \* field epsilon_
    min_points_,          \* field min_points_
    cluster_ids,          \* partition::cluster_ids
    medoid_ids,           \* partition::medoid_ids
    current_cluster_id_,  \* field current_cluster_id_
    total_clusters_,      \* field total_clusters_
    i,                    \* dbscan's loop index (= expand_cluster's current_object)
    seed_list,            \* expand_cluster's worklist
    seed_list_iterator,   \* position of expand_cluster's iterator in seed_list
    ret,                  \* value returned by the last expand_cluster call
    pc                    \* control position

vars == <<objects, dmetric, args, epsilon_, min_points_, cluster_ids, medoid_ids,
          current_cluster_id_, total_clusters_, i, seed_list, seed_list_iterator,
          ret, pc>>

\* ----------------------------------------------------------------- helpers
At(v, k) == v[k + 1]
Put(v, k, x) == [v EXCEPT ![k + 1] = x]
Indices(n) == 0 .. (n - 1)
Iota(n) == [k \in 1 .. n |-> k - 1]
Elems(s) == {s[k] : k \in 1 .. Len(s)}
current_object == i
\* dmetric(a, b): the metric is kept as the matrix of its values on the objects
Call(dm, a, b) == At(At(dm, a), b)

\* --------------------------------------------------- epsilon_range_query
\* the distance test with <= in place of <
WithinEpsilon_le(d, eps) == d <= eps

\* line 191: the test that admits object i to the neighbourhood
WithinEpsilon(d, eps) == d < eps

\* lines 184-194: the loop of epsilon_range_query from index k on
RECURSIVE RangeScan(_, _, _, _, _, _)
RangeScan(objs, dm, eps, cur, k, result) ==
    IF k >= Len(objs) THEN result
    ELSE IF k = cur
         THEN RangeScan(objs, dm, eps, cur, k + 1, Append(result, k))
         ELSE IF WithinEpsilon(Call(dm, At(objs, cur), At(objs, k)), eps)
              THEN RangeScan(objs, dm, eps, cur, k + 1, Append(result, k))
              ELSE RangeScan(objs, dm, eps, cur, k + 1, result)

epsilon_range_query(objs, dm, cur) == RangeScan(objs, dm, epsilon_, cur, 0, <<>>)

\* -------------------------------------------------------- expand_cluster
\* the noise test off by one, in either direction
TooSmall_off(list, mp) == Len(list) + 1 < mp
TooSmall_le(list, mp) == Len(list) <= mp

\* line 128: the neighbourhood is too small to start a cluster
TooSmall(list, mp) == Len(list) < mp

\* LabelNeighbourhood without the erase of line 140
RECURSIVE LabelNeighbourhood_keepseed(_, _, _, _, _)
LabelNeighbourhood_keepseed(ids, list, k, cur, cid) ==
    IF k > Len(list) THEN [ids |-> ids, list |-> list]
    ELSE LabelNeighbourhood_keepseed(Put(ids, list[k], cid), list, k + 1, cur, cid)

\* LabelNeighbourhood with the seed erased before it is labelled
RECURSIVE LabelNeighbourhood_seedunlabelled(_, _, _, _, _)
LabelNeighbourhood_seedunlabelled(ids, list, k, cur, cid) ==
    IF k > Len(list) THEN [ids |-> ids, list |-> list]
    ELSE IF list[k] = cur
         THEN LabelNeighbourhood_seedunlabelled(ids,
                  SubSeq(list, 1, k - 1) \o SubSeq(list, k + 1, Len(list)),
                  k, cur, cid)
         ELSE LabelNeighbourhood_seedunlabelled(Put(ids, list[k], cid), list,
                  k + 1, cur, cid)

\* lines 134-144: label the whole neighbourhood, erase the seed from the list
RECURSIVE LabelNeighbourhood(_, _, _, _, _)
LabelNeighbourhood(ids, list, k, cur, cid) ==
    IF k > Len(list) THEN [ids |-> ids, list |-> list]
    ELSE IF list[k] = cur
         THEN LabelNeighbourhood(Put(ids, list[k], cid),
                  SubSeq(list, 1, k - 1) \o SubSeq(list, k + 1, Len(list)),
                  k, cur, cid)
         ELSE LabelNeighbourhood(Put(ids, list[k], cid), list, k + 1, cur, cid)

\* the drain's test without its NOISE half
Claimable_unclassified(label) == label = UNCLASSIFIED

\* lines 165-166: a neighbour that the drain may claim
Claimable(label) == label = UNCLASSIFIED \/ label = NOISE

\* every claimed neighbour joins the worklist
Enqueued_all(label) == TRUE

\* line 167: a claimed neighbour that joins the worklist
Enqueued(label) == label = UNCLASSIFIED

\* the core test with > in place of >=
IsCore_gt(list, mp) == Len(list) > mp

\* line 158: the visited entry is a core point
IsCore(list, mp) == Len(list) >= mp

\* lines 159-172: the scan of one visited entry's neighbourhood from position k
RECURSIVE DrainNeighbours(_, _, _, _, _)
DrainNeighbours(ids, list, nlist, k, cid) ==
    IF k > Len(nlist) THEN [ids |-> ids, list |-> list]
    ELSE IF Claimable(At(ids, nlist[k]))
         THEN DrainNeighbours(
                  Put(ids, nlist[k], cid),
                  IF Enqueued(At(ids, nlist[k])) THEN Append(list, nlist[k])
                                                 ELSE list,
                  nlist, k + 1, cid)
         ELSE DrainNeighbours(ids, list, nlist, k + 1, cid)

\* the scan without its UNCLASSIFIED test
NeedsExpansion_any(label) == TRUE

\* line 98: the scan expands only an object that is still UNCLASSIFIED
NeedsExpansion(label) == label = UNCLASSIFIED

\* ------------------------------------------------------------------- Init
\* A symmetric metric over n objects, given by its values on unordered pairs.
SymmetricMetrics(n, D) ==
    { [a \in 1 .. n |-> [b \in 1 .. n |->
          IF a = b THEN 0 ELSE IF a < b THEN g[<<a, b>>] ELSE g[<<b, a>>]]] :
      g \in [{q \in (1 .. n) \X (1 .. n) : q[1] < q[2]} -> D] }

\* The clusterer as constructed, before dbscan is called on it.
Constructed ==
    /\ cluster_ids = <<>>
    /\ medoid_ids = <<>>
    /\ current_cluster_id_ = FIRST_CLUSTER
    /\ total_clusters_ = 0
    /\ epsilon_ = 0
    /\ min_points_ = 0

Locals ==
    /\ i = 0
    /\ seed_list = <<>>
    /\ seed_list_iterator = 0
    /\ ret = FALSE

Init ==
    /\ \E n \in 0 .. MaxN :
          /\ objects = Iota(n)
          /\ dmetric \in SymmetricMetrics(n, Distances)
    /\ \E e \in Epsilons, mp \in 0 .. MaxMinPoints :
          args = [epsilon |-> e, min_points |-> mp]
    /\ Constructed
    /\ Locals
    /\ pc = "call"

\* ---------------------------------------------------------------- actions
\* lines 90-95
dbscan_begin ==
    /\ pc = "call"
    /\ epsilon_' = args.epsilon
    /\ min_points_' = args.min_points
    /\ cluster_ids' = cluster_ids \o [k \in 1 .. Len(objects) |-> UNCLASSIFIED]
    /\ i' = 0
    /\ pc' = "scan"
    /\ UNCHANGED <<objects, dmetric, args, medoid_ids, current_cluster_id_,
                   total_clusters_, seed_list, seed_list_iterator, ret>>

\* lines 97-98: the object is already classified
dbscan_skip ==
    /\ pc = "scan"
    /\ i < Len(objects)
    /\ ~NeedsExpansion(At(cluster_ids, i))
    /\ i' = i + 1
    /\ UNCHANGED <<objects, dmetric, args, epsilon_, min_points_, cluster_ids,
                   medoid_ids, current_cluster_id_, total_clusters_, seed_list,
                   seed_list_iterator, ret, pc>>

\* lines 98-99 and 125-131: the seed's neighbourhood is too small
expand_cluster_noise ==
    /\ pc = "scan"
    /\ i < Len(objects)
    /\ NeedsExpansion(At(cluster_ids, i))
    /\ \E list \in {epsilon_range_query(objects, dmetric, current_object)} :
          /\ TooSmall(list, min_points_)
          /\ cluster_ids' = Put(cluster_ids, current_object, NOISE)
    /\ ret' = FALSE
    /\ pc' = "returned"
    /\ UNCHANGED <<objects, dmetric, args, epsilon_, min_points_, medoid_ids,
                   current_cluster_id_, total_clusters_, i, seed_list,
                   seed_list_iterator>>

\* lines 98-99 and 125-147: the seed starts a cluster
expand_cluster_seed ==
    /\ pc = "scan"
    /\ i < Len(objects)
    /\ NeedsExpansion(At(cluster_ids, i))
    /\ \E list \in {epsilon_range_query(objects, dmetric, current_object)} :
          /\ ~TooSmall(list, min_points_)
          /\ \E r \in {LabelNeighbourhood(cluster_ids, list, 1, current_object,
                                          current_cluster_id_)} :
                /\ cluster_ids' = r.ids
                /\ seed_list' = r.list
    /\ seed_list_iterator' = 0
    /\ pc' = "drain"
    /\ UNCHANGED <<objects, dmetric, args, epsilon_, min_points_, medoid_ids,
                   current_cluster_id_, total_clusters_, i, ret>>

\* lines 147-175: one iteration of the worklist loop
expand_cluster_visit ==
    /\ pc = "drain"
    /\ seed_list_iterator < Len(seed_list)
    /\ \E neighbour_seed_list \in
              {epsilon_range_query(objects, dmetric,
                                   At(seed_list, seed_list_iterator))} :
          IF IsCore(neighbour_seed_list, min_points_)
          THEN \E r \in {DrainNeighbours(cluster_ids, seed_list,
                                         neighbour_seed_list, 1,
                                         current_cluster_id_)} :
                  /\ cluster_ids' = r.ids
                  /\ seed_list' = r.list
          ELSE UNCHANGED <<cluster_ids, seed_list>>
    /\ seed_list_iterator' = seed_list_iterator + 1
    /\ UNCHANGED <<objects, dmetric, args, epsilon_, min_points_, medoid_ids,
                   current_cluster_id_, total_clusters_, i, ret, pc>>

\* lines 148 and 177: the worklist is exhausted
expand_cluster_return ==
    /\ pc = "drain"
    /\ seed_list_iterator = Len(seed_list)
    /\ ret' = TRUE
    /\ seed_list' = <<>>
    /\ seed_list_iterator' = 0
    /\ pc' = "returned"
    /\ UNCHANGED <<objects, dmetric, args, epsilon_, min_points_, cluster_ids,
                   medoid_ids, current_cluster_id_, total_clusters_, i>>

\* dbscan_after_expand without the total_clusters_++ of line 102
dbscan_after_expand_nototal ==
    /\ pc = "returned"
    /\ IF ret
       THEN /\ medoid_ids' = Append(medoid_ids, i)
            /\ current_cluster_id_' = current_cluster_id_ + 1
       ELSE UNCHANGED <<medoid_ids, current_cluster_id_>>
    /\ i' = i + 1
    /\ ret' = FALSE
    /\ pc' = "scan"
    /\ UNCHANGED <<objects, dmetric, args, epsilon_, min_points_, cluster_ids,
                   total_clusters_, seed_list, seed_list_iterator>>

\* dbscan_after_expand without the test of expand_cluster's result
dbscan_after_expand_always ==
    /\ pc = "returned"
    /\ medoid_ids' = Append(medoid_ids, i)
    /\ current_cluster_id_' = current_cluster_id_ + 1
    /\ total_clusters_' = total_clusters_ + 1
    /\ i' = i + 1
    /\ ret' = FALSE
    /\ pc' = "scan"
    /\ UNCHANGED <<objects, dmetric, args, epsilon_, min_points_, cluster_ids,
                   seed_list, seed_list_iterator>>

\* lines 99-104 and the i++ of line 97
dbscan_after_expand ==
    /\ pc = "returned"
    /\ IF ret
       THEN /\ medoid_ids' = Append(medoid_ids, i)
            /\ current_cluster_id_' = current_cluster_id_ + 1
            /\ total_clusters_' = total_clusters_ + 1
       ELSE UNCHANGED <<medoid_ids, current_cluster_id_, total_clusters_>>
    /\ i' = i + 1
    /\ ret' = FALSE
    /\ pc' = "scan"
    /\ UNCHANGED <<objects, dmetric, args, epsilon_, min_points_, cluster_ids,
                   seed_list, seed_list_iterator>>

\* lines 97 and 106: the scan is over
dbscan_return ==
    /\ pc = "scan"
    /\ i >= Len(objects)
    /\ pc' = "done"
    /\ UNCHANGED <<objects, dmetric, args, epsilon_, min_points_, cluster_ids,
                   medoid_ids, current_cluster_id_, total_clusters_, i, seed_list,
                   seed_list_iterator, ret>>

\* lines 180-197: one call of epsilon_range_query on its own, result in seed_list
range_query ==
    /\ pc = "query"
    /\ i < Len(objects)
    /\ seed_list' = epsilon_range_query(objects, dmetric, current_object)
    /\ pc' = "queried"
    /\ UNCHANGED <<objects, dmetric, args, epsilon_, min_points_, cluster_ids,
                   medoid_ids, current_cluster_id_, total_clusters_, i,
                   seed_list_iterator, ret>>

Next ==
    \/ dbscan_begin
    \/ dbscan_skip
    \/ expand_cluster_noise
    \/ expand_cluster_seed
    \/ expand_cluster_visit
    \/ expand_cluster_return
    \/ dbscan_after_expand
    \/ dbscan_return

\* dbscan on a symmetric metric
Spec == Init /\ [][Next]_vars

\* dbscan on any metric, symmetric or not (the diagonal of the metric is never read)
AnyMetrics(n, D) ==
    { [a \in 1 .. n |-> [b \in 1 .. n |-> IF a = b THEN 0 ELSE g[<<a, b>>]]] :
      g \in [{q \in (1 .. n) \X (1 .. n) : q[1] # q[2]} -> D] }

InitAny ==
    /\ \E n \in 0 .. MaxAnyN :
          /\ objects = Iota(n)
          /\ dmetric \in AnyMetrics(n, Distances)
    /\ \E e \in Epsilons, mp \in 0 .. MaxMinPoints :
          args = [epsilon |-> e, min_points |-> mp]
    /\ Constructed
    /\ Locals
    /\ pc = "call"

SpecAll == (Init \/ InitAny) /\ [][Next]_vars

\* The program is sequential: whenever a step is enabled it is taken.
FairSpecAny == InitAny /\ [][Next]_vars /\ WF_vars(Next)

\* epsilon_range_query alone, in the state a run has at its first query
InitQuery ==
    /\ \E n \in 1 .. MaxQueryN :
          /\ objects = Iota(n)
          /\ dmetric \in [1 .. n -> [1 .. n -> QueryDistances]]
          /\ i \in Indices(n)
          /\ cluster_ids = [k \in 1 .. n |-> UNCLASSIFIED]
    /\ \E e \in QueryEpsilons, mp \in 0 .. 1 :
          /\ args = [epsilon |-> e, min_points |-> mp]
          /\ epsilon_ = e
          /\ min_points_ = mp
    /\ medoid_ids = <<>>
    /\ current_cluster_id_ = FIRST_CLUSTER
    /\ total_clusters_ = 0
    /\ seed_list = <<>>
    /\ seed_list_iterator = 0
    /\ ret = FALSE
    /\ pc = "query"

SpecQuery == InitQuery /\ [][range_query]_vars

\* ============================================================== properties
\* The notions the properties are stated in, read off the metric itself.
N == Len(objects)
Label(k) == At(cluster_ids, k)
Dist(p, q) == dmetric[p + 1][q + 1]
Nbhd(p) == {p} \cup {j \in Indices(N) : j # p /\ Dist(p, j) < epsilon_}
CorePoint(p) == Cardinality(Nbhd(p)) >= min_points_
CorePoints == {c \in Indices(N) : CorePoint(c)}
IsClusterId(x) == x >= FIRST_CLUSTER
Members(cid) == {j \in Indices(N) : Label(j) = cid}
ClusterIds == FIRST_CLUSTER .. (FIRST_CLUSTER + total_clusters_ - 1)
Done == pc = "done"

\* C1: once an entry of cluster_ids holds a cluster identifier, no step writes a
\* different value into it.
C1_ClusterIdTerminal ==
    [][\A k \in 1 .. Len(cluster_ids) :
          IsClusterId(cluster_ids[k]) => cluster_ids'[k] = cluster_ids[k]]_vars

\* C2 (as stated): when dbscan has returned with min_points >= 1, every object in a
\* core point's neighbourhood has the core point's label.
C2_DensityContainment ==
    (Done /\ min_points_ >= 1) =>
        \A p \in CorePoints : \A q \in Nbhd(p) : Label(q) = Label(p)

\* C2 (amended): when dbscan has returned with min_points >= 1, every object in a
\* core point's neighbourhood holds a cluster identifier, and every core point in
\* that neighbourhood has the core point's label.
C2_CoreContainment ==
    (Done /\ min_points_ >= 1) =>
        \A p \in CorePoints : \A q \in Nbhd(p) :
            /\ IsClusterId(Label(q))
            /\ CorePoint(q) => Label(q) = Label(p)

\* Two core points, each with a border object in its neighbourhood that carries
\* a cluster identifier, one of them not the core point's own.
C2_Witness ==
    /\ Done
    /\ min_points_ >= 2
    /\ \E p, c \in CorePoints :
          /\ Label(p) # Label(c)
          /\ \E r \in Nbhd(p) \cap Nbhd(c) :
                ~CorePoint(r) /\ Label(r) = Label(c)

\* C3: when dbscan has returned, cluster_ids has one entry per object and every
\* entry is NOISE or the identifier of a discovered cluster; none is UNCLASSIFIED.
C3_Totality ==
    Done =>
        /\ Len(cluster_ids) = N
        /\ \A k \in Indices(N) : Label(k) = NOISE \/ Label(k) \in ClusterIds

C3_Witness ==
    /\ Done
    /\ N >= 3
    /\ \E k \in Indices(N) : Label(k) = NOISE
    /\ \E k \in Indices(N) : Label(k) = FIRST_CLUSTER + 1

\* C4: when dbscan has returned, an object is NOISE exactly when it lies in the
\* neighbourhood of no core point.
C4_NoiseCharacterisation ==
    Done =>
        \A q \in Indices(N) :
            (Label(q) = NOISE) <=> ~(\E c \in CorePoints : q \in Nbhd(c))

\* An object below the first medoid was scanned, and marked NOISE, before any
\* cluster existed; here one such object ends in the first cluster and another
\* object ends as NOISE.
C4_Witness ==
    /\ Done
    /\ Len(medoid_ids) >= 1
    /\ \E q \in Indices(N) : q < medoid_ids[1] /\ Label(q) = FIRST_CLUSTER
    /\ \E q \in Indices(N) : Label(q) = NOISE

\* C5: medoid_ids grows only by the seed of an expand_cluster call that returned
\* true, appended at position current_cluster_id_ - FIRST_CLUSTER, and the object
\* at medoid_ids[k] keeps the label FIRST_CLUSTER + k.
C5_MedoidNumbering ==
    /\ [](\A k \in 1 .. Len(medoid_ids) :
             /\ medoid_ids[k] \in Indices(N)
             /\ Label(medoid_ids[k]) = FIRST_CLUSTER + (k - 1))
    /\ [](Done => Len(medoid_ids) = total_clusters_)
    /\ [][(pc = "returned" /\ ret) =>
             /\ Label(current_object) = current_cluster_id_
             /\ Len(medoid_ids) = current_cluster_id_ - FIRST_CLUSTER
             /\ medoid_ids' = Append(medoid_ids, current_object)]_vars
    /\ [][medoid_ids' # medoid_ids => (pc = "returned" /\ ret)]_vars

\* Two clusters, and a neighbour of a medoid that ended in another cluster.
C5_Witness ==
    /\ Done
    /\ total_clusters_ >= 2
    /\ \E k \in 1 .. Len(medoid_ids) :
          \E q \in Nbhd(medoid_ids[k]) :
              IsClusterId(Label(q)) /\ Label(q) # Label(medoid_ids[k])

AllFar == \A p, q \in Indices(N) : p # q => Dist(p, q) >= epsilon_
AllNoise ==
    /\ \A k \in Indices(N) : Label(k) = NOISE
    /\ medoid_ids = <<>>
    /\ total_clusters_ = 0

C7_AllNoisePositive == (Done /\ AllFar /\ min_points_ >= 1) => AllNoise

\* C7 (amended): when every distance between distinct objects is >= epsilon and
\* min_points >= 2, dbscan returns with all entries NOISE, an empty medoid list and
\* total_clusters = 0.
C7_AllNoise == (Done /\ AllFar /\ min_points_ >= 2) => AllNoise

C7_Witness == Done /\ AllFar /\ min_points_ = 2 /\ N >= 3 /\ AllNoise

\* C8: when all n >= 1 objects are within epsilon of each other and
\* 1 <= min_points <= n, dbscan returns one cluster holding every object, with
\* medoid list [0].
AllNear == \A p, q \in Indices(N) : p # q => Dist(p, q) < epsilon_

C8_SingleCluster ==
    (Done /\ N >= 1 /\ AllNear /\ min_points_ >= 1 /\ min_points_ <= N) =>
        /\ total_clusters_ = 1
        /\ medoid_ids = <<0>>
        /\ Len(cluster_ids) = N
        /\ \A k \in Indices(N) : Label(k) = FIRST_CLUSTER

C8_Witness ==
    /\ Done
    /\ N >= 3
    /\ AllNear
    /\ min_points_ = N
    /\ \A k \in Indices(N) : Label(k) = FIRST_CLUSTER

\* C9: epsilon_range_query(i) returns, in strictly ascending order, exactly i and
\* the indices j # i with distance(i, j) < epsilon, and writes nothing else.
Ascending(s) == \A a, b \in 1 .. Len(s) : a < b => s[a] < s[b]

C9_RangeQuery ==
    /\ [](pc = "queried" =>
             /\ Ascending(seed_list)
             /\ Elems(seed_list) = Nbhd(current_object))
    /\ [][pc = "query" =>
             UNCHANGED <<cluster_ids, medoid_ids, current_cluster_id_,
                         total_clusters_, epsilon_, min_points_>>]_vars

\* The queried object is on the radius from itself, one object is exactly on the
\* radius (excluded) and one is strictly inside (included).
C9_Witness ==
    /\ pc = "queried"
    /\ Dist(current_object, current_object) >= epsilon_
    /\ current_object \in Elems(seed_list)
    /\ \E j \in Indices(N) :
          j # current_object /\ Dist(current_object, j) = epsilon_
              /\ j \notin Elems(seed_list)

\* C10: dbscan returns; the scan index only ever advances by one, up to n; and the
\* worklist of an expansion never holds more than n-1 entries, so at most n-1
\* worklist queries are made per expansion.
C10_Termination ==
    /\ <>Done
    /\ [](Done => i = N)
    /\ [][i' = i \/ (i' = i + 1 /\ i < N)]_vars
    /\ [](pc = "drain" =>
             /\ seed_list_iterator <= Len(seed_list)
             /\ Len(seed_list) <= N - 1)

\* An expansion whose worklist grew while it was drained, now fully drained.
C10_Witness ==
    /\ pc = "drain"
    /\ N >= 3
    /\ seed_list_iterator = Len(seed_list)
    /\ Len(seed_list) = N - 1
    /\ Cardinality(Nbhd(current_object)) < N

\* C11: in a run with min_points 0 or 1 no entry of cluster_ids is ever NOISE and
\* every expand_cluster call returns true.
C11_DegenerateMinPoints ==
    args.min_points <= 1 =>
        /\ \A k \in 1 .. Len(cluster_ids) : cluster_ids[k] # NOISE
        /\ pc = "returned" => ret

\* An isolated object that started a cluster of its own.
C11_Witness ==
    /\ pc = "returned"
    /\ ret
    /\ args.min_points <= 1
    /\ N >= 2
    /\ Nbhd(current_object) = {current_object}

\* C13: an expand_cluster call that finds the seed's neighbourhood smaller than
\* min_points returns false having written only NOISE to the seed's own entry, and
\* the scan's handling of the false result writes none of cluster_ids, medoid_ids,
\* current_cluster_id_ and total_clusters_.
SeedCall == pc = "scan" /\ i < N /\ Label(i) = UNCLASSIFIED

C13_FailedExpansionFrame ==
    /\ [][(SeedCall /\ Cardinality(Nbhd(current_object)) < min_points_) =>
             /\ pc' = "returned"
             /\ ret' = FALSE
             /\ cluster_ids' = Put(cluster_ids, current_object, NOISE)
             /\ UNCHANGED <<medoid_ids, current_cluster_id_, total_clusters_>>]_vars
    /\ [][(pc = "returned" /\ ~ret) =>
             /\ pc' = "scan"
             /\ UNCHANGED <<cluster_ids, medoid_ids, current_cluster_id_,
                            total_clusters_>>]_vars

\* A failed expansion in a run that already has a cluster.
C13_Witness ==
    /\ pc = "returned"
    /\ ~ret
    /\ Label(current_object) = NOISE
    /\ Len(medoid_ids) >= 1
    /\ \E k \in Indices(N) : IsClusterId(Label(k))

\* C14: a visit of worklist entry p writes cluster_ids only at neighbours q of p
\* that are UNCLASSIFIED or NOISE, and only when p's neighbourhood has at least
\* min_points objects; it then gives each of them the current identifier, appends
\* exactly those that were UNCLASSIFIED, and leaves every other entry, p's own
\* included, as it was.  A p with a smaller neighbourhood writes and appends nothing.
Visit == pc = "drain" /\ seed_list_iterator < Len(seed_list)
Claimed(p) ==
    IF CorePoint(p)
    THEN {q \in Nbhd(p) : Label(q) = UNCLASSIFIED \/ Label(q) = NOISE}
    ELSE {}

C14_DrainRule ==
    [][Visit =>
          \A p \in {At(seed_list, seed_list_iterator)} :
          \A claimed \in {Claimed(p)} :
          \A added \in {SubSeq(seed_list', Len(seed_list) + 1, Len(seed_list'))} :
              /\ \A q \in Indices(N) :
                    At(cluster_ids', q) =
                        IF q \in claimed THEN current_cluster_id_ ELSE Label(q)
              /\ At(cluster_ids', p) = Label(p)
              /\ SubSeq(seed_list', 1, Len(seed_list)) = seed_list
              /\ Ascending(added)
              /\ Elems(added) = {q \in claimed : Label(q) = UNCLASSIFIED}]_vars

\* After a visit: an object that carries the current identifier without being the
\* seed or on the worklist (it was NOISE when claimed), and a worklist longer than
\* the visited prefix plus one.
C14_Witness ==
    /\ pc = "drain"
    /\ seed_list_iterator >= 1
    /\ \E q \in Indices(N) :
          /\ Label(q) = current_cluster_id_
          /\ q # current_object
          /\ q \notin Elems(seed_list)
    /\ \E p \in Elems(seed_list) : ~CorePoint(p)
    /\ \E q \in Elems(seed_list) : q \notin Nbhd(current_object)

\* C15: between iterations of the scan the length of medoid_ids, total_clusters_
\* and current_cluster_id_ - FIRST_CLUSTER are equal; the three grow by exactly one,
\* together, in the step that handles an expand_cluster call that returned true,
\* and no other step changes any of them.
C15_CounterInvariant ==
    /\ [](/\ Len(medoid_ids) = total_clusters_
          /\ total_clusters_ = current_cluster_id_ - FIRST_CLUSTER)
    /\ [][IF pc = "returned" /\ ret
          THEN /\ Len(medoid_ids') = Len(medoid_ids) + 1
               /\ total_clusters_' = total_clusters_ + 1
               /\ current_cluster_id_' = current_cluster_id_ + 1
          ELSE UNCHANGED <<medoid_ids, total_clusters_, current_cluster_id_>>]_vars

\* The scan between two iterations, after two clusters and a failed expansion.
C15_Witness ==
    /\ pc = "scan"
    /\ total_clusters_ = 2
    /\ i < N
    /\ \E k \in Indices(N) : Label(k) = NOISE

\* C16: expand_cluster is called on a seed only while the seed's entry is
\* UNCLASSIFIED; the scan index never goes back and moves on by one when a call
\* has returned, so no index is a seed twice and seeds come in ascending order;
\* medoid_ids is strictly ascending and every medoid lies behind the scan index.
SeedCalled == pc = "scan" /\ (pc' = "drain" \/ pc' = "returned")

C16_SeedOrdering ==
    /\ [][SeedCalled => (i < N /\ Label(i) = UNCLASSIFIED /\ i' = i)]_vars
    /\ [][i' >= i]_vars
    /\ [][(pc = "returned" /\ pc' = "scan") => i' = i + 1]_vars
    /\ [][pc = "drain" => i' = i]_vars
    /\ [](Ascending(medoid_ids))
    /\ [](\A k \in 1 .. Len(medoid_ids) :
             IF pc = "scan" \/ pc = "done" THEN medoid_ids[k] < i
                                          ELSE medoid_ids[k] <= i)

\* A seed call on an index that follows skipped, already classified indices.
C16_Witness ==
    /\ pc = "drain"
    /\ Len(medoid_ids) >= 1
    /\ current_object > medoid_ids[Len(medoid_ids)] + 1
    /\ \E k \in Indices(N) : k < current_object /\ Label(k) = NOISE

\* C17: with a symmetric metric, a step that replaces one cluster identifier by
\* another does so only at an object that is not a core point, and when dbscan has
\* returned any two core points within epsilon of each other have the same label.
C17_CoreNeverReclaimed ==
    /\ [][\A k \in 1 .. Len(cluster_ids) :
             (IsClusterId(cluster_ids[k]) /\ cluster_ids'[k] # cluster_ids[k]) =>
                 ~CorePoint(k - 1)]_vars
    /\ [](Done => \A p, q \in CorePoints : q \in Nbhd(p) => Label(q) = Label(p))

\* A seed has just relabelled a border object of an earlier cluster: the object
\* lies in the neighbourhood of that cluster's medoid and of the new seed.
C17_Witness ==
    /\ pc = "drain"
    /\ seed_list_iterator = 0
    /\ \E q \in Elems(seed_list) :
          /\ ~CorePoint(q)
          /\ \E k \in 1 .. Len(medoid_ids) : q \in Nbhd(medoid_ids[k])

\* C18: no step lowers the label of an entry of cluster_ids; NOISE is written only
\* to the current seed, while it is UNCLASSIFIED; and no entry ever exceeds
\* current_cluster_id_.
C18_LabelMonotone ==
    /\ [][\A k \in 1 .. Len(cluster_ids) :
             /\ cluster_ids'[k] >= cluster_ids[k]
             /\ (cluster_ids'[k] = NOISE /\ cluster_ids[k] # NOISE) =>
                    /\ pc = "scan"
                    /\ k - 1 = current_object
                    /\ cluster_ids[k] = UNCLASSIFIED]_vars
    /\ [](\A k \in 1 .. Len(cluster_ids) : cluster_ids[k] <= current_cluster_id_)

\* NOISE has just been written to the seed, and an object that was marked NOISE
\* before the first cluster existed now carries a cluster identifier.
C18_Witness ==
    /\ pc = "returned"
    /\ ~ret
    /\ Len(medoid_ids) >= 1
    /\ \E q \in Indices(N) : q < medoid_ids[1] /\ IsClusterId(Label(q))

\* C19: during an expand_cluster call the worklist holds no index twice, never
\* holds the seed, and every index on it carries the current cluster identifier.
C19_WorklistUnique ==
    pc = "drain" =>
        /\ \A a, b \in 1 .. Len(seed_list) : a # b => seed_list[a] # seed_list[b]
        /\ current_object \notin Elems(seed_list)
        /\ \A a \in 1 .. Len(seed_list) : Label(seed_list[a]) = current_cluster_id_

\* A worklist that has grown beyond the seed's neighbourhood and is being visited.
C19_Witness ==
    /\ Visit
    /\ seed_list_iterator >= 1
    /\ Len(seed_list) > Cardinality(Nbhd(current_object))

====
